---- MODULE Spec2Model ----
(***************************************************************************)
(* geodistance: the MCP tool handler calculate_distance and its provider   *)
(* client (geodistanceserver/handler.go, the address-based version that    *)
(* starts at line 176), the server constructor, and the process            *)
(* environment the API key is read from.                                   *)
(*                                                                         *)
(* Go strings are TLA+ strings (Len, SubSeq and \o act on them), Go's nil  *)
(* is the record Nil, a Go error is a record [msg, wrapped], and a pair    *)
(* of return values (x, err) is a record.                                  *)
(***************************************************************************)
EXTENDS Integers, Sequences, FiniteSets, TLC

\* The number of handleDistanceCalculation invocations that may be in
\* flight at once on the one handler.
NumProcs == 2

Procs == 1..NumProcs

VARIABLES
    env,      \* GOOGLE_API_KEY in the process environment
    handler,  \* the *GeodistanceHandler constructed, Nil before
    server,   \* the *server.MCPServer constructed, Nil when there is none
    ret,      \* what the last constructor call returned, and the environment it saw
    calls,    \* per goroutine: the handleDistanceCalculation invocation in flight
    done      \* the invocation that returned last: its inputs and what it returned

vars == <<env, handler, server, ret, calls, done>>

\* Go's nil (pointer, interface, error, slice).
Nil == [nil |-> TRUE]

----------------------------------------------------------------------------
(* Strings                                                                 *)

\* The element of a set of one element: in The({e : x \in {v}}) the value
\* of v is computed once, however often e uses x.
The(S) == CHOOSE y \in S : TRUE

\* The byte of s at position i (from 1), "" past its end.
Char(s, i) == IF 1 <= i /\ i <= Len(s) THEN SubSeq(s, i, i) ELSE ""

HasPrefix(s, p) == Len(p) <= Len(s) /\ SubSeq(s, 1, Len(p)) = p

HasSuffix(s, p) == Len(p) <= Len(s) /\ SubSeq(s, Len(s) - Len(p) + 1, Len(s)) = p

Contains(s, p) == \E i \in 1..(Len(s) - Len(p) + 1) : SubSeq(s, i, i + Len(p) - 1) = p

Digits == <<"0", "1", "2", "3", "4", "5", "6", "7", "8", "9">>

IsDigit(c) == \E d \in 1..10 : Digits[d] = c

DigitVal(c) == (CHOOSE d \in 1..10 : Digits[d] = c) - 1

RECURSIVE FormatNat(_)
\* The decimal digits of n >= 0, most significant first.
FormatNat(n) ==
    IF n < 10 THEN Digits[n + 1]
    ELSE FormatNat(n \div 10) \o Digits[(n % 10) + 1]

\* fmt's %d verb for an int.
FormatInt(n) == IF n < 0 THEN "-" \o FormatNat(0 - n) ELSE FormatNat(n)

\* fmt.Errorf(msg) with no %w verb.
NewError(msg) == [msg |-> msg, wrapped |-> Nil]

\* fmt.Errorf(prefix + "%w", cause): the message of the cause is appended
\* and the cause stays reachable through Unwrap.
WrapError(prefix, cause) == [msg |-> prefix \o cause.msg, wrapped |-> cause]

----------------------------------------------------------------------------
(* encoding/json, as far as json.Unmarshal(bodyBytes, &responseBody) uses  *)
(* it: the syntax check of the whole text, then the decoding of the value  *)
(* into a ResponseBody. A JSON value is a record tagged by t. The texts of *)
(* the library's error messages are not part of the repository: each kind  *)
(* of error has one fixed text here. Escapes \b, \f and \uXXXX and integer *)
(* literals of more than nine digits are outside the replies of the model. *)

IsSpace(c) == c \in {" ", "\t", "\n", "\r"}

\* The first position from i on that holds no white space.
SkipSpace(s, i) ==
    IF i > Len(s) THEN i
    ELSE CHOOSE j \in i..(Len(s) + 1) :
             ~IsSpace(Char(s, j)) /\ \A k \in i..(j - 1) : IsSpace(Char(s, k))

\* The first position from i on that holds no digit.
ScanDigits(s, i) ==
    IF i > Len(s) THEN i
    ELSE CHOOSE j \in i..(Len(s) + 1) :
             ~IsDigit(Char(s, j)) /\ \A k \in i..(j - 1) : IsDigit(Char(s, k))

Fail == [ok |-> FALSE]

\* A value read, and the position after it.
Parsed(v, i) == [ok |-> TRUE, v |-> v, i |-> i]

LiteralAt(s, i, lit) == i + Len(lit) - 1 <= Len(s) /\ SubSeq(s, i, i + Len(lit) - 1) = lit

\* The end of the fraction that may start at b: b when there is none, 0
\* when it has no digit.
ScanFraction(s, b) ==
    IF Char(s, b) # "." THEN b
    ELSE IF ScanDigits(s, b + 1) = b + 1 THEN 0
    ELSE ScanDigits(s, b + 1)

\* The position after the sign an exponent at c may carry.
ExponentDigits(s, c) == IF Char(s, c + 1) \in {"+", "-"} THEN c + 2 ELSE c + 1

\* The end of the exponent that may start at c, likewise.
ScanExponent(s, c) ==
    IF Char(s, c) \notin {"e", "E"} THEN c
    ELSE IF ScanDigits(s, ExponentDigits(s, c)) = ExponentDigits(s, c) THEN 0
    ELSE ScanDigits(s, ExponentDigits(s, c))

\* The end of the integer part of a number at i, 0 when it has no digit.
ScanInteger(s, i) ==
    The({ IF Char(s, a) = "0" THEN a + 1
          ELSE IF ScanDigits(s, a) = a THEN 0
          ELSE ScanDigits(s, a)
          : a \in {IF Char(s, i) = "-" THEN i + 1 ELSE i} })

\* A number literal at i: -? (0 | [1-9][0-9]*) (. [0-9]+)? ([eE] [+-]? [0-9]+)?
ParseNumber(s, i) ==
    The({ IF b = 0 THEN Fail
          ELSE The({ IF c = 0 THEN Fail
                     ELSE The({ IF d = 0 THEN Fail
                                ELSE Parsed([t |-> "number", lit |-> SubSeq(s, i, d - 1)], d)
                                : d \in {ScanExponent(s, c)} })
                     : c \in {ScanFraction(s, b)} })
          : b \in {ScanInteger(s, i)} })

\* The byte an escape sequence \e stands for, "" when the model has none.
Unescape(e) ==
    IF e \in {"\"", "\\", "/"} THEN e
    ELSE IF e = "n" THEN "\n"
    ELSE IF e = "t" THEN "\t"
    ELSE IF e = "r" THEN "\r"
    ELSE ""

\* The number of backslashes in a row that end right before position j of
\* s, none of them before position i.
Backslashes(s, i, j) ==
    CHOOSE n \in 0..(j - i) :
        /\ \A k \in (j - n)..(j - 1) : Char(s, k) = "\\"
        /\ n = j - i \/ Char(s, j - n - 1) # "\\"

\* Position j holds the quote that ends the string literal whose content
\* starts at i: a quote that no backslash escapes.
IsClosing(s, i, j) == Char(s, j) = "\"" /\ Backslashes(s, i, j) % 2 = 0

\* The position of the closing quote of the literal whose content starts
\* at i, 0 when there is none.
StringEnd(s, i) ==
    IF \E j \in i..Len(s) : IsClosing(s, i, j)
    THEN CHOOSE j \in i..Len(s) :
             IsClosing(s, i, j) /\ \A k \in i..(j - 1) : ~IsClosing(s, i, k)
    ELSE 0

\* Position k of the content c of a literal starts an escape sequence.
EscStart(c, k) == Char(c, k) = "\\" /\ Backslashes(c, 1, k) % 2 = 0

\* The content of a literal holds no control byte and only escapes the
\* model knows.
ValidString(c) ==
    \A k \in 1..Len(c) :
        /\ Char(c, k) \notin {"\n", "\t", "\r"}
        /\ EscStart(c, k) => Unescape(Char(c, k + 1)) # ""

RECURSIVE Concat(_, _, _)
\* The strings f[lo], ..., f[hi] joined.
Concat(f, lo, hi) ==
    IF lo > hi THEN ""
    ELSE IF lo = hi THEN f[lo]
    ELSE The({ Concat(f, lo, mid) \o Concat(f, mid + 1, hi) : mid \in {(lo + hi) \div 2} })

\* The string the content c of a literal stands for.
Unquote(c) ==
    IF ~Contains(c, "\\") THEN c
    ELSE Concat([k \in 1..Len(c) |->
                    IF EscStart(c, k) THEN ""
                    ELSE IF k > 1 /\ EscStart(c, k - 1) THEN Unescape(Char(c, k))
                    ELSE Char(c, k)], 1, Len(c))

\* The string literal whose opening quote is right before position i.
ScanString(s, i) ==
    The({ IF q = 0 THEN Fail
          ELSE IF ~ValidString(SubSeq(s, i, q - 1)) THEN Fail
          ELSE Parsed([t |-> "string", s |-> Unquote(SubSeq(s, i, q - 1))], q + 1)
          : q \in {StringEnd(s, i)} })

RECURSIVE ParseValue(_, _)
RECURSIVE ParseElements(_, _, _)
RECURSIVE ParseMembers(_, _, _)

\* One member of an object at i, "key": value, and the position of the
\* byte that follows it.
ParseMember(s, i) ==
    IF Char(s, i) # "\"" THEN Fail
    ELSE The({ IF ~k.ok THEN Fail
               ELSE IF Char(s, SkipSpace(s, k.i)) # ":" THEN Fail
               ELSE The({ IF ~r.ok THEN Fail
                          ELSE Parsed([key |-> k.v.s, value |-> r.v], SkipSpace(s, r.i))
                          : r \in {ParseValue(s, SkipSpace(s, k.i) + 1)} })
               : k \in {ScanString(s, i + 1)} })

\* The members of an object from i on, after those of acc.
ParseMembers(s, i, acc) ==
    The({ IF ~m.ok THEN Fail
          ELSE IF Char(s, m.i) = ","
               THEN ParseMembers(s, SkipSpace(s, m.i + 1), Append(acc, m.v))
          ELSE IF Char(s, m.i) = "}"
               THEN Parsed([t |-> "object", members |-> Append(acc, m.v)], m.i + 1)
          ELSE Fail
          : m \in {ParseMember(s, i)} })

\* The elements of an array from i on, after those of acc.
ParseElements(s, i, acc) ==
    The({ IF ~r.ok THEN Fail
          ELSE IF Char(s, SkipSpace(s, r.i)) = ","
               THEN ParseElements(s, SkipSpace(s, r.i) + 1, Append(acc, r.v))
          ELSE IF Char(s, SkipSpace(s, r.i)) = "]"
               THEN Parsed([t |-> "array", elems |-> Append(acc, r.v)], SkipSpace(s, r.i) + 1)
          ELSE Fail
          : r \in {ParseValue(s, i)} })

\* The JSON value that starts at i0, white space skipped.
ParseValue(s, i0) ==
    The({ IF Char(s, i) = "{" THEN
              IF Char(s, SkipSpace(s, i + 1)) = "}"
              THEN Parsed([t |-> "object", members |-> <<>>], SkipSpace(s, i + 1) + 1)
              ELSE ParseMembers(s, SkipSpace(s, i + 1), <<>>)
          ELSE IF Char(s, i) = "[" THEN
              IF Char(s, SkipSpace(s, i + 1)) = "]"
              THEN Parsed([t |-> "array", elems |-> <<>>], SkipSpace(s, i + 1) + 1)
              ELSE ParseElements(s, i + 1, <<>>)
          ELSE IF Char(s, i) = "\"" THEN ScanString(s, i + 1)
          ELSE IF Char(s, i) = "-" \/ IsDigit(Char(s, i)) THEN ParseNumber(s, i)
          ELSE IF LiteralAt(s, i, "null") THEN Parsed([t |-> "null"], i + 4)
          ELSE IF LiteralAt(s, i, "true") THEN Parsed([t |-> "bool", b |-> TRUE], i + 4)
          ELSE IF LiteralAt(s, i, "false") THEN Parsed([t |-> "bool", b |-> FALSE], i + 5)
          ELSE Fail
          : i \in {SkipSpace(s, i0)} })

\* The whole text is one JSON value (json's checkValid).
ParseJSON(s) ==
    The({ IF r.ok /\ SkipSpace(s, r.i) = Len(s) + 1 THEN r ELSE Fail
          : r \in {ParseValue(s, 1)} })

UpperCase == "ABCDEFGHIJKLMNOPQRSTUVWXYZ"

LowerCase == "abcdefghijklmnopqrstuvwxyz"

FoldChar(c) ==
    IF \E k \in 1..Len(UpperCase) : Char(UpperCase, k) = c
    THEN Char(LowerCase, CHOOSE k \in 1..Len(UpperCase) : Char(UpperCase, k) = c)
    ELSE c

\* A struct field is matched to an object key without regard to case.
FoldName(s) == Concat([k \in 1..Len(s) |-> FoldChar(Char(s, k))], 1, Len(s))

RECURSIVE DigitsValue(_, _)
\* The number the first n bytes of s, all digits, denote.
DigitsValue(s, n) ==
    IF n = 0 THEN 0 ELSE 10 * DigitsValue(s, n - 1) + DigitVal(Char(s, n))

\* A number literal an int field takes: no fraction, no exponent.
IsIntLiteral(v) ==
    /\ v.t = "number"
    /\ ~Contains(v.lit, ".") /\ ~Contains(v.lit, "e") /\ ~Contains(v.lit, "E")
    /\ Len(v.lit) <= 9

IntValue(v) ==
    IF Char(v.lit, 1) = "-"
    THEN 0 - DigitsValue(SubSeq(v.lit, 2, Len(v.lit)), Len(v.lit) - 1)
    ELSE DigitsValue(v.lit, Len(v.lit))

SyntaxError == NewError("json: invalid syntax")

UnmarshalTypeError == NewError("json: cannot unmarshal value into Go value")

\* type Route: the zero value a slice element starts from.
ZeroRoute == [DistanceMeters |-> 0, Duration |-> "", RouteLabels |-> <<>>]

\* A decoding step's outcome: the Go value, and whether no type error was met.
Decoded(val, ok) == [val |-> val, ok |-> ok]

\* One element of routeLabels appended to acc.
DecodeLabel(e, acc) ==
    IF e.t = "string" THEN Decoded(Append(acc.val, e.s), acc.ok)
    ELSE IF e.t = "null" THEN Decoded(Append(acc.val, ""), acc.ok)
    ELSE Decoded(Append(acc.val, ""), FALSE)

RECURSIVE DecodeLabelElems(_, _, _)
DecodeLabelElems(elems, k, acc) ==
    IF k > Len(elems) THEN acc
    ELSE The({ DecodeLabelElems(elems, k + 1, a) : a \in {DecodeLabel(elems[k], acc)} })

\* RouteLabels []string `json:"routeLabels"`
DecodeLabels(v, cur) ==
    IF v.t = "null" THEN Decoded(<<>>, TRUE)
    ELSE IF v.t = "array" THEN DecodeLabelElems(v.elems, 1, Decoded(<<>>, TRUE))
    ELSE Decoded(cur, FALSE)

\* One member of a route object decoded into acc: the field its key names
\* is set, a key that names no field is skipped, null leaves the field.
DecodeRouteMember(m, acc) ==
    The({ IF name = "distancemeters" THEN
              IF m.value.t = "null" THEN acc
              ELSE IF IsIntLiteral(m.value)
                   THEN Decoded([acc.val EXCEPT !.DistanceMeters = IntValue(m.value)], acc.ok)
              ELSE Decoded(acc.val, FALSE)
          ELSE IF name = "duration" THEN
              IF m.value.t = "null" THEN acc
              ELSE IF m.value.t = "string"
                   THEN Decoded([acc.val EXCEPT !.Duration = m.value.s], acc.ok)
              ELSE Decoded(acc.val, FALSE)
          ELSE IF name = "routelabels" THEN
              The({ Decoded([acc.val EXCEPT !.RouteLabels = labels.val], acc.ok /\ labels.ok)
                    : labels \in {DecodeLabels(m.value, acc.val.RouteLabels)} })
          ELSE acc
          : name \in {FoldName(m.key)} })

RECURSIVE DecodeRouteMembers(_, _, _)
\* The members of a route object in order; a key met again overwrites.
DecodeRouteMembers(members, k, acc) ==
    IF k > Len(members) THEN acc
    ELSE The({ DecodeRouteMembers(members, k + 1, a)
               : a \in {DecodeRouteMember(members[k], acc)} })

\* type Route struct (handler.go:212)
DecodeRoute(v) ==
    IF v.t = "null" THEN Decoded(ZeroRoute, TRUE)
    ELSE IF v.t = "object" THEN DecodeRouteMembers(v.members, 1, Decoded(ZeroRoute, TRUE))
    ELSE Decoded(ZeroRoute, FALSE)

RECURSIVE DecodeRouteElems(_, _, _)
DecodeRouteElems(elems, k, acc) ==
    IF k > Len(elems) THEN acc
    ELSE The({ DecodeRouteElems(elems, k + 1, Decoded(Append(acc.val, r.val), acc.ok /\ r.ok))
               : r \in {DecodeRoute(elems[k])} })

\* Routes []Route `json:"routes"`
DecodeRoutes(v, cur) ==
    IF v.t = "null" THEN Decoded(<<>>, TRUE)
    ELSE IF v.t = "array" THEN DecodeRouteElems(v.elems, 1, Decoded(<<>>, TRUE))
    ELSE Decoded(cur, FALSE)

\* One member of the reply object decoded into acc.
DecodeBodyMember(m, acc) ==
    IF FoldName(m.key) # "routes" THEN acc
    ELSE The({ Decoded([acc.val EXCEPT !.Routes = routes.val], acc.ok /\ routes.ok)
               : routes \in {DecodeRoutes(m.value, acc.val.Routes)} })

RECURSIVE DecodeBodyMembers(_, _, _)
DecodeBodyMembers(members, k, acc) ==
    IF k > Len(members) THEN acc
    ELSE The({ DecodeBodyMembers(members, k + 1, a)
               : a \in {DecodeBodyMember(members[k], acc)} })

\* var responseBody ResponseBody: its zero value.
ZeroResponseBody == [Routes |-> <<>>]

\* type ResponseBody struct (handler.go:208)
DecodeResponseBody(v) ==
    IF v.t = "null" THEN Decoded(ZeroResponseBody, TRUE)
    ELSE IF v.t = "object"
         THEN DecodeBodyMembers(v.members, 1, Decoded(ZeroResponseBody, TRUE))
    ELSE Decoded(ZeroResponseBody, FALSE)

\* json.Unmarshal(data, &responseBody): the value decoded and the error.
Unmarshal(data) ==
    The({ IF ~p.ok THEN [val |-> ZeroResponseBody, err |-> SyntaxError]
          ELSE The({ IF ~d.ok THEN [val |-> d.val, err |-> UnmarshalTypeError]
                     ELSE [val |-> d.val, err |-> Nil]
                     : d \in {DecodeResponseBody(p.v)} })
          : p \in {ParseJSON(data)} })

----------------------------------------------------------------------------
(* The process environment and the constructors                            *)

\* The GOOGLE_API_KEY entry of the environment: unset, or set to a value.
Unset == [set |-> FALSE]

SetTo(v) == [set |-> TRUE, value |-> v]

\* os.Getenv: the value, "" when the variable is unset.
Getenv(e) == IF e.set THEN e.value ELSE ""

\* &http.Client{Timeout: 30 * time.Second} (handler.go:229)
DefaultClient == [kind |-> "http.Client", timeoutSeconds |-> 30]

\* The test double handed to NewGeodistanceHandlerWithClient.
MockClient == [kind |-> "MockHTTPClient"]

MissingKeyMessage == "GOOGLE_API_KEY environment variable not set"

\* NewGeodistanceHandlerWithClient without the check of the key.
NewGeodistanceHandlerWithClientUnchecked(e, client) ==
    [val |-> [apiKey |-> Getenv(e), client |-> client], err |-> Nil]

NewGeodistanceHandlerWithClient(e, client) ==
    LET googleApiKey == Getenv(e)
    IN  IF googleApiKey = ""
        THEN [val |-> Nil, err |-> NewError(MissingKeyMessage)]
        ELSE [val |-> [apiKey |-> googleApiKey, client |-> client], err |-> Nil]

NewGeodistanceHandler(e) == NewGeodistanceHandlerWithClient(e, DefaultClient)

\* var Version = "dev"
Version == "dev"

\* mcp.NewTool(name, mcp.WithString(arg, mcp.Required()), ...) added with
\* s.AddTool(tool, handler): the name, the required string arguments and the
\* handler method registered for it.
NewTool(name, required, h) == [Name |-> name, Required |-> required, Handler |-> h]

NewMCPServer(name, version, tools) == [name |-> name, version |-> version, tools |-> tools]

\* func GeodistanceServer (the address-based server constructor)
GeodistanceServer(e) ==
    LET h == NewGeodistanceHandler(e)
    IN  IF h.err # Nil THEN [val |-> Nil, err |-> h.err]
        ELSE [val |-> NewMCPServer("mcp-geodistance-server", Version,
                        <<NewTool("calculate_distance",
                                  <<"originAddress", "destinationAddress">>,
                                  [recv |-> h.val, method |-> "handleDistanceCalculation"])>>),
              err |-> Nil]

\* func NewGeodistanceServer (server.go: the latitude/longitude registration)
NewGeodistanceServer(e) ==
    LET h == NewGeodistanceHandler(e)
    IN  IF h.err # Nil THEN [val |-> Nil, err |-> h.err]
        ELSE [val |-> NewMCPServer("mcp-geodistance-server", Version,
                        <<NewTool("calculate_distance",
                                  <<"originLatitude", "originLongitude",
                                    "destinationLatitude", "destinationLongitude">>,
                                  [recv |-> h.val, method |-> "handleDistanceCalculation"])>>),
              err |-> Nil]

----------------------------------------------------------------------------
(* The tool handler and the provider client                                *)

\* A tool argument of the request: a JSON string, or a value of another type.
StringArg(s) == [t |-> "string", s |-> s]

NumberArg(n) == [t |-> "number", n |-> n]

\* fmt's %q of an argument key (the keys hold nothing to escape).
Quote(s) == "\"" \o s \o "\""

\* request.RequireString(key) of mcp-go: the string under key of the
\* argument map, an error when the key is absent or holds no string.
RequireString(args, key) ==
    IF key \in DOMAIN args
    THEN IF args[key].t = "string"
         THEN [val |-> args[key].s, err |-> Nil]
         ELSE [val |-> "", err |-> NewError("argument " \o Quote(key) \o " is not a string")]
    ELSE [val |-> "", err |-> NewError("required argument " \o Quote(key) \o " not found")]

\* validateAddresses checking the destination only.
validateAddressesDestinationOnly(origin, destination) ==
    IF destination = "" THEN NewError("destination address cannot be empty")
    ELSE Nil

\* validateAddresses taking an address of white space alone for an empty
\* one.
validateAddressesTrimSpace(origin, destination) ==
    IF \A k \in 1..Len(origin) : IsSpace(Char(origin, k))
    THEN NewError("origin address cannot be empty")
    ELSE IF \A k \in 1..Len(destination) : IsSpace(Char(destination, k))
    THEN NewError("destination address cannot be empty")
    ELSE Nil

validateAddresses(origin, destination) ==
    IF origin = "" THEN NewError("origin address cannot be empty")
    ELSE IF destination = "" THEN NewError("destination address cannot be empty")
    ELSE Nil

\* buildRequestBody with the two lists exchanged.
buildRequestBodySwapped(origins, destinations) ==
    [Origins |-> destinations,
     Destinations |-> origins,
     TravelMode |-> "DRIVE",
     RoutingPreference |-> "TRAFFIC_AWARE",
     RequestedReferenceRoutes |-> <<"SHORTER_DISTANCE">>,
     LanguageCode |-> "en-US"]

buildRequestBody(origins, destinations) ==
    [Origins |-> origins,
     Destinations |-> destinations,
     TravelMode |-> "DRIVE",
     RoutingPreference |-> "TRAFFIC_AWARE",
     RequestedReferenceRoutes |-> <<"SHORTER_DISTANCE">>,
     LanguageCode |-> "en-US"]

\* The body of a JSON string literal: quotes and backslashes are escaped
\* (the addresses of the model hold no other byte json.Marshal rewrites).
EscapeJSON(s) ==
    IF \A k \in 1..Len(s) : Char(s, k) \notin {"\"", "\\"} THEN s
    ELSE Concat([k \in 1..Len(s) |->
                    IF Char(s, k) \in {"\"", "\\"} THEN "\\" \o Char(s, k)
                    ELSE Char(s, k)],
                1, Len(s))

MarshalString(s) == "\"" \o EscapeJSON(s) \o "\""

RECURSIVE MarshalList(_, _)
\* A JSON array of the texts of items, which are already marshalled.
MarshalList(items, k) ==
    IF k > Len(items) THEN ""
    ELSE (IF k > 1 THEN "," ELSE "") \o items[k] \o MarshalList(items, k + 1)

MarshalAddresses(as) ==
    "[" \o MarshalList([k \in 1..Len(as) |-> "{\"address\":" \o MarshalString(as[k].Address) \o "}"], 1) \o "]"

MarshalStrings(ss) ==
    "[" \o MarshalList([k \in 1..Len(ss) |-> MarshalString(ss[k])], 1) \o "]"

\* json.Marshal(body) of a RequestBody, fields in declaration order.
Marshal(body) ==
    "{\"origins\":" \o MarshalAddresses(body.Origins)
    \o ",\"destinations\":" \o MarshalAddresses(body.Destinations)
    \o ",\"travelMode\":" \o MarshalString(body.TravelMode)
    \o ",\"routingPreference\":" \o MarshalString(body.RoutingPreference)
    \o ",\"requestedReferenceRoutes\":" \o MarshalStrings(body.RequestedReferenceRoutes)
    \o ",\"languageCode\":" \o MarshalString(body.LanguageCode)
    \o "}"

ProviderURL == "https://routes.googleapis.com/distanceMatrix/v2:computeRouteMatrix"

FieldMask == "routes.duration,routes.routeLabels,routes.distanceMeters"

\* createRequest reading the key from the environment at each request.
createRequestGetenv(gh, ctx, body) ==
    IF ctx = Nil
    THEN [val |-> Nil,
          err |-> WrapError("failed to create request: ", NewError("net/http: nil Context"))]
    ELSE [val |-> [Method |-> "POST",
                   URL |-> ProviderURL,
                   Body |-> Marshal(body),
                   ctx |-> ctx,
                   Header |-> [ContentType |-> "application/json",
                               XGoogApiKey |-> Getenv(env),
                               XGoogFieldMask |-> FieldMask]],
          err |-> Nil]

\* createRequest as the superseded callDistanceMatrix built its request:
\* http.NewRequest, which attaches context.Background(), and the field mask
\* of the matrix elements.
createRequestDraft(gh, ctx, body) ==
    [val |-> [Method |-> "POST",
              URL |-> ProviderURL,
              Body |-> Marshal(body),
              ctx |-> [background |-> TRUE],
              Header |-> [ContentType |-> "application/json",
                          XGoogApiKey |-> gh.apiKey,
                          XGoogFieldMask |->
                              "originIndex,destinationIndex,duration,distanceMeters,status,condition"]],
     err |-> Nil]

\* http.NewRequestWithContext fails on a nil context; the method and the URL
\* are constants it accepts. json.Marshal of a RequestBody cannot fail.
createRequest(gh, ctx, body) ==
    LET jsonData == Marshal(body)
    IN  IF ctx = Nil
        THEN [val |-> Nil,
              err |-> WrapError("failed to create request: ", NewError("net/http: nil Context"))]
        ELSE [val |-> [Method |-> "POST",
                       URL |-> ProviderURL,
                       Body |-> jsonData,
                       ctx |-> ctx,
                       Header |-> [ContentType |-> "application/json",
                                   XGoogApiKey |-> gh.apiKey,
                                   XGoogFieldMask |-> FieldMask]],
              err |-> Nil]

\* io.ReadAll(resp.Body): the bytes the body yields before it ends, and the
\* error it ends with (nil at the end of the data).
ReadAll(body) == [data |-> body.data, err |-> body.err]

StatusOK == 200

\* A return of processResponse without the deferred Close: the body is
\* closed at the end of the successful path alone.
ProcessReturnCloseOnSuccess(val, err, decoded) ==
    [val |-> val, err |-> err, closes |-> IF err = Nil THEN 1 ELSE 0, decoded |-> decoded]

\* A return of processResponse: the deferred resp.Body.Close() has run by
\* then (closes counts the calls of Close); decoded tells whether
\* json.Unmarshal was reached.
ProcessReturn(val, err, decoded) ==
    [val |-> val, err |-> err, closes |-> 1, decoded |-> decoded]

StatusError(resp, data) ==
    NewError("API request failed with status " \o FormatInt(resp.StatusCode) \o ": " \o data)

\* processResponse with a decoding failure handed back next to what was
\* decoded before it.
processResponsePartial(resp) ==
    LET read == ReadAll(resp.Body)
    IN  IF resp.StatusCode # StatusOK
        THEN ProcessReturn(Nil, StatusError(resp, read.data), FALSE)
        ELSE IF read.err # Nil
        THEN ProcessReturn(Nil, WrapError("failed to read response body: ", read.err), FALSE)
        ELSE The({ IF dec.err # Nil
                   THEN ProcessReturn(dec.val,
                                      WrapError("failed to unmarshal response: ", dec.err), TRUE)
                   ELSE IF Len(dec.val.Routes) = 0
                   THEN ProcessReturn(Nil, NewError("no routes found in response"), TRUE)
                   ELSE ProcessReturn(dec.val, Nil, TRUE)
                   : dec \in {Unmarshal(read.data)} })

\* processResponse taking every 2xx status for a success.
processResponseAny2xx(resp) ==
    LET read == ReadAll(resp.Body)
    IN  IF resp.StatusCode \div 100 # 2
        THEN ProcessReturn(Nil, StatusError(resp, read.data), FALSE)
        ELSE IF read.err # Nil
        THEN ProcessReturn(Nil, WrapError("failed to read response body: ", read.err), FALSE)
        ELSE The({ IF dec.err # Nil
                   THEN ProcessReturn(Nil,
                                      WrapError("failed to unmarshal response: ", dec.err), TRUE)
                   ELSE IF Len(dec.val.Routes) = 0
                   THEN ProcessReturn(Nil, NewError("no routes found in response"), TRUE)
                   ELSE ProcessReturn(dec.val, Nil, TRUE)
                   : dec \in {Unmarshal(read.data)} })

\* processResponse without the check of len(responseBody.Routes).
processResponseNoEmptyCheck(resp) ==
    LET read == ReadAll(resp.Body)
    IN  IF resp.StatusCode # StatusOK
        THEN ProcessReturn(Nil, StatusError(resp, read.data), FALSE)
        ELSE IF read.err # Nil
        THEN ProcessReturn(Nil, WrapError("failed to read response body: ", read.err), FALSE)
        ELSE The({ IF dec.err # Nil
                   THEN ProcessReturn(Nil,
                                      WrapError("failed to unmarshal response: ", dec.err), TRUE)
                   ELSE ProcessReturn(dec.val, Nil, TRUE)
                   : dec \in {Unmarshal(read.data)} })

\* processResponse dropping the error of json.Unmarshal.
processResponseIgnoreDecodeError(resp) ==
    LET read == ReadAll(resp.Body)
    IN  IF resp.StatusCode # StatusOK
        THEN ProcessReturn(Nil, StatusError(resp, read.data), FALSE)
        ELSE IF read.err # Nil
        THEN ProcessReturn(Nil, WrapError("failed to read response body: ", read.err), FALSE)
        ELSE The({ IF Len(dec.val.Routes) = 0
                   THEN ProcessReturn(Nil, NewError("no routes found in response"), TRUE)
                   ELSE ProcessReturn(dec.val, Nil, TRUE)
                   : dec \in {Unmarshal(read.data)} })

\* processResponse reading and decoding the body before it looks at the
\* status.
processResponseDecodeFirst(resp) ==
    LET read == ReadAll(resp.Body)
    IN  IF read.err # Nil
        THEN ProcessReturn(Nil, WrapError("failed to read response body: ", read.err), FALSE)
        ELSE The({ IF dec.err # Nil
                   THEN ProcessReturn(Nil,
                                      WrapError("failed to unmarshal response: ", dec.err), TRUE)
                   ELSE IF resp.StatusCode # StatusOK
                   THEN ProcessReturn(Nil, StatusError(resp, read.data), TRUE)
                   ELSE IF Len(dec.val.Routes) = 0
                   THEN ProcessReturn(Nil, NewError("no routes found in response"), TRUE)
                   ELSE ProcessReturn(dec.val, Nil, TRUE)
                   : dec \in {Unmarshal(read.data)} })

processResponse(resp) ==
    LET read == ReadAll(resp.Body)
    IN  IF resp.StatusCode # StatusOK
        THEN ProcessReturn(Nil, StatusError(resp, read.data), FALSE)
        ELSE IF read.err # Nil
        THEN ProcessReturn(Nil, WrapError("failed to read response body: ", read.err), FALSE)
        ELSE The({ IF dec.err # Nil
                   THEN ProcessReturn(Nil,
                                      WrapError("failed to unmarshal response: ", dec.err), TRUE)
                   ELSE IF Len(dec.val.Routes) = 0
                   THEN ProcessReturn(Nil, NewError("no routes found in response"), TRUE)
                   ELSE ProcessReturn(dec.val, Nil, TRUE)
                   : dec \in {Unmarshal(read.data)} })

\* formatResponse surfacing the last route of the reply.
formatResponseLastRoute(responseBody) ==
    IF responseBody = Nil THEN [val |-> Nil, err |-> Nil, panic |-> TRUE]
    ELSE IF Len(responseBody.Routes) = 0
    THEN [val |-> Nil, err |-> NewError("no routes available"), panic |-> FALSE]
    ELSE LET route == responseBody.Routes[Len(responseBody.Routes)]
         IN  [val |-> [Content |-> <<[Type |-> "text",
                                      Text |-> "Route distance: " \o FormatInt(route.DistanceMeters)
                                               \o " meters, Duration: " \o route.Duration]>>],
              err |-> Nil, panic |-> FALSE]

\* A nil *ResponseBody is dereferenced by responseBody.Routes: the goroutine
\* panics.
formatResponse(responseBody) ==
    IF responseBody = Nil THEN [val |-> Nil, err |-> Nil, panic |-> TRUE]
    ELSE IF Len(responseBody.Routes) = 0
    THEN [val |-> Nil, err |-> NewError("no routes available"), panic |-> FALSE]
    ELSE LET route == responseBody.Routes[1]
         IN  [val |-> [Content |-> <<[Type |-> "text",
                                      Text |-> "Route distance: " \o FormatInt(route.DistanceMeters)
                                               \o " meters, Duration: " \o route.Duration]>>],
              err |-> Nil, panic |-> FALSE]

\* callDistanceMatrix handing the request to Do a second time.
callDistanceMatrixSendTwice(gh, ctx, origins, destinations) ==
    LET req == createRequest(gh, ctx, buildRequestBody(origins, destinations))
    IN  IF req.err # Nil THEN [requests |-> <<>>, err |-> req.err]
        ELSE [requests |-> <<req.val, req.val>>, err |-> Nil]

\* callDistanceMatrix up to gh.client.Do(req): the requests it hands to Do.
callDistanceMatrixSend(gh, ctx, origins, destinations) ==
    LET body == buildRequestBody(origins, destinations)
        req == createRequest(gh, ctx, body)
    IN  IF req.err # Nil THEN [requests |-> <<>>, err |-> req.err]
        ELSE [requests |-> <<req.val>>, err |-> Nil]

\* callDistanceMatrix formatting the error of Do with %v, which keeps its
\* text and drops the error itself.
callDistanceMatrixReceiveUnwrapped(doRet) ==
    IF doRet.err # Nil
    THEN [val |-> Nil, err |-> NewError("failed to execute request: " \o doRet.err.msg),
          closes |-> 0, decoded |-> FALSE, processed |-> FALSE]
    ELSE The({ [val |-> r.val, err |-> r.err, closes |-> r.closes, decoded |-> r.decoded,
                processed |-> TRUE]
               : r \in {processResponse(doRet.resp)} })

\* callDistanceMatrix from the return of gh.client.Do(req) on.
callDistanceMatrixReceive(doRet) ==
    IF doRet.err # Nil
    THEN [val |-> Nil, err |-> WrapError("failed to execute request: ", doRet.err),
          closes |-> 0, decoded |-> FALSE, processed |-> FALSE]
    ELSE The({ [val |-> r.val, err |-> r.err, closes |-> r.closes, decoded |-> r.decoded,
                processed |-> TRUE]
               : r \in {processResponse(doRet.resp)} })

\* What an invocation hands back: (result, err), or a panic; formatted tells
\* whether it called formatResponse.
Returned(result, err, panic, formatted) ==
    [result |-> result, err |-> err, panic |-> panic, formatted |-> formatted]

\* handleDistanceCalculation up to gh.client.Do(req).
handleDistanceCalculationSend(gh, ctx, args) ==
    LET originAddress == RequireString(args, "originAddress")
        destinationAddress == RequireString(args, "destinationAddress")
        invalid == validateAddresses(originAddress.val, destinationAddress.val)
        origins == <<[Address |-> originAddress.val]>>
        destinations == <<[Address |-> destinationAddress.val]>>
        sent == callDistanceMatrixSend(gh, ctx, origins, destinations)
    IN  IF originAddress.err # Nil
        THEN [requests |-> <<>>,
              ret |-> Returned(Nil, WrapError("missing origin address: ", originAddress.err), FALSE, FALSE)]
        ELSE IF destinationAddress.err # Nil
        THEN [requests |-> <<>>,
              ret |-> Returned(Nil, WrapError("missing destination address: ", destinationAddress.err), FALSE, FALSE)]
        ELSE IF invalid # Nil
        THEN [requests |-> <<>>, ret |-> Returned(Nil, invalid, FALSE, FALSE)]
        ELSE IF sent.err # Nil
        THEN [requests |-> <<>>, ret |-> Returned(Nil, sent.err, FALSE, FALSE)]
        ELSE [requests |-> sent.requests, ret |-> Nil]

\* handleDistanceCalculationReceive translating the error of
\* callDistanceMatrix into one of its own.
handleDistanceCalculationReceiveWrapped(doRet) ==
    The({ LET formatted == formatResponse(responseBody.val)
          IN  [client |-> responseBody,
               ret |-> IF responseBody.err # Nil
                       THEN Returned(Nil, WrapError("failed to calculate distance: ", responseBody.err),
                                     FALSE, FALSE)
                       ELSE Returned(formatted.val, formatted.err, formatted.panic, TRUE)]
          : responseBody \in {callDistanceMatrixReceive(doRet)} })

\* handleDistanceCalculation from the return of gh.client.Do(req) on: what
\* it returns (ret), and what callDistanceMatrix returned to it (client).
handleDistanceCalculationReceive(doRet) ==
    The({ LET formatted == formatResponse(responseBody.val)
          IN  [client |-> responseBody,
               ret |-> IF responseBody.err # Nil
                       THEN Returned(Nil, responseBody.err, FALSE, FALSE)
                       ELSE Returned(formatted.val, formatted.err, formatted.panic, TRUE)]
          : responseBody \in {callDistanceMatrixReceive(doRet)} })

----------------------------------------------------------------------------
(* Inputs                                                                  *)

\* The values GOOGLE_API_KEY is set to.
EnvValues == {"", "test-api-key", "rotated-key"}

NewYorkLosAngeles ==
    [originAddress |-> StringArg("New York"), destinationAddress |-> StringArg("Los Angeles")]

\* The argument maps of the tool calls: the cases of
\* TestGeodistanceHandler_handleDistanceCalculation, and both keys missing,
\* both empty, an empty destination, a whitespace-only origin next to a
\* travelMode the tool does not declare, an origin that is no string, and the
\* arguments of the latitude/longitude registration.
ArgMaps ==
    { NewYorkLosAngeles,
      [destinationAddress |-> StringArg("Los Angeles")],
      [originAddress |-> StringArg("New York")],
      [originAddress |-> StringArg(""), destinationAddress |-> StringArg("Los Angeles")],
      [originAddress |-> StringArg("New York"), destinationAddress |-> StringArg("")],
      [originAddress |-> StringArg(""), destinationAddress |-> StringArg("")],
      [originAddress |-> StringArg(" "), destinationAddress |-> StringArg("Los Angeles"),
       travelMode |-> StringArg("WALK")],
      [originAddress |-> NumberArg(42), destinationAddress |-> StringArg("Los Angeles")],
      [originLatitude |-> StringArg("37.42"), originLongitude |-> StringArg("-122.08"),
       destinationLatitude |-> StringArg("37.43"), destinationLongitude |-> StringArg("-122.09")],
      <<>> }

\* createValidAPIResponse() of the tests.
ValidAPIResponse ==
    "{\"routes\":[{\"distanceMeters\":1000,\"duration\":\"5m\",\"routeLabels\":[\"DEFAULT_ROUTE\"]}]}"

\* The same first route, followed by a reference route.
TwoRoutesResponse ==
    "{\"routes\":[{\"distanceMeters\":1000,\"duration\":\"5m\",\"routeLabels\":[\"DEFAULT_ROUTE\"]},"
    \o "{\"distanceMeters\":87865,\"duration\":\"4903s\",\"routeLabels\":[\"SHORTER_DISTANCE\"]}]}"

\* The sample reply of the README.
SampleResponse ==
    "{\n \"routes\": [\n  {\"distanceMeters\": 94475, \"duration\": \"3288s\", \"routeLabels\": [\"DEFAULT_ROUTE\"]},\n"
    \o "  {\"distanceMeters\": 87865, \"duration\": \"4903s\", \"routeLabels\": [\"SHORTER_DISTANCE\"]}\n ]\n}\n"

NoRoutesResponse == "{\"routes\": []}"

InvalidJSON == "invalid json"

ErrorResponse == "{\"error\": \"Invalid request\"}"

NegativeDistanceResponse == "{\"routes\":[{\"distanceMeters\":-5,\"duration\":\"12s\"}]}"

MissingDistanceResponse == "{\"routes\":[{\"duration\":\"7s\"}]}"

StringDistanceResponse == "{\"routes\":[{\"distanceMeters\":\"1000\",\"duration\":\"5s\"}]}"

\* A response the client returns: the status and the body, a reader that
\* yields data and then ends (err nil) or fails (err).
Response(status, data, err) == [StatusCode |-> status, Body |-> [data |-> data, err |-> err]]

UnexpectedEOF == NewError("unexpected EOF")

NetworkError == NewError("network error")

\* The error of http.Client when it gives up following redirects: Do
\* returns it together with the last response, whose body it has closed.
RedirectError == NewError("stopped after 10 redirects")

\* What gh.client.Do(req) returns: (resp, nil), or an error with no
\* response or with one that is to be ignored.
DoOutcomes ==
    { [resp |-> Response(200, ValidAPIResponse, Nil), err |-> Nil],
      [resp |-> Response(200, TwoRoutesResponse, Nil), err |-> Nil],
      [resp |-> Response(200, SampleResponse, Nil), err |-> Nil],
      [resp |-> Response(200, NoRoutesResponse, Nil), err |-> Nil],
      [resp |-> Response(200, InvalidJSON, Nil), err |-> Nil],
      [resp |-> Response(200, ErrorResponse, Nil), err |-> Nil],
      [resp |-> Response(200, NegativeDistanceResponse, Nil), err |-> Nil],
      [resp |-> Response(200, MissingDistanceResponse, Nil), err |-> Nil],
      [resp |-> Response(200, StringDistanceResponse, Nil), err |-> Nil],
      [resp |-> Response(200, "{\"routes\":[{\"dist", UnexpectedEOF), err |-> Nil],
      [resp |-> Response(400, ErrorResponse, Nil), err |-> Nil],
      [resp |-> Response(500, ValidAPIResponse, Nil), err |-> Nil],
      [resp |-> Response(201, ValidAPIResponse, Nil), err |-> Nil],
      [resp |-> Response(502, "Bad Gat", UnexpectedEOF), err |-> Nil],
      [resp |-> Nil, err |-> NetworkError],
      [resp |-> Response(302, "", Nil), err |-> RedirectError] }

----------------------------------------------------------------------------
(* The state machine                                                       *)

Idle == [pc |-> "idle"]

Init ==
    /\ env \in {Unset} \cup {SetTo(v) : v \in EnvValues}
    /\ handler = Nil
    /\ server = Nil
    /\ ret = Nil
    /\ calls = [p \in Procs |-> Idle]
    /\ done = Nil

\* os.Setenv("GOOGLE_API_KEY", v)
Setenv(v) ==
    /\ env' = SetTo(v)
    /\ UNCHANGED <<handler, server, ret, calls, done>>

\* os.Unsetenv("GOOGLE_API_KEY")
Unsetenv ==
    /\ env' = Unset
    /\ UNCHANGED <<handler, server, ret, calls, done>>

\* A constructor returned r: the process keeps the handler (and the server)
\* it made.
Constructed(fn, r, h, s) ==
    /\ ret' = [fn |-> fn, env |-> env, val |-> r.val, err |-> r.err]
    /\ handler' = h
    /\ server' = s
    /\ UNCHANGED <<env, calls, done>>

CallNewGeodistanceHandler ==
    /\ handler = Nil
    /\ LET r == NewGeodistanceHandler(env)
       IN  Constructed("NewGeodistanceHandler", r, r.val, Nil)

CallNewGeodistanceHandlerWithClient ==
    /\ handler = Nil
    /\ LET r == NewGeodistanceHandlerWithClient(env, MockClient)
       IN  Constructed("NewGeodistanceHandlerWithClient", r, r.val, Nil)

\* The handler of the server is the receiver of its registered tool.
ToolHandler(r) == IF r.val = Nil THEN Nil ELSE r.val.tools[1].Handler.recv

CallGeodistanceServer ==
    /\ handler = Nil
    /\ LET r == GeodistanceServer(env)
       IN  Constructed("GeodistanceServer", r, ToolHandler(r), r.val)

CallNewGeodistanceServer ==
    /\ handler = Nil
    /\ LET r == NewGeodistanceServer(env)
       IN  Constructed("NewGeodistanceServer", r, ToolHandler(r), r.val)

\* The record of an invocation that has returned: its inputs, the requests
\* it handed to Do and what Do returned, what callDistanceMatrix returned
\* (client, Nil when it was not called) and what the invocation returned.
Completed(p, ctx, args, requests, doRet, client, out) ==
    [proc |-> p, ctx |-> ctx, args |-> args, requests |-> requests, doRet |-> doRet,
     client |-> client, result |-> out.result, err |-> out.err, panic |-> out.panic,
     formatted |-> out.formatted]

\* The receive half on each outcome of Do, evaluated once.
Received == [doRet \in DoOutcomes |-> handleDistanceCalculationReceive(doRet)]

\* Call with the request kept in a field of the shared handler: the request
\* of the newest invocation replaces the one every invocation in flight holds.
CallSharedRequest(p, args) ==
    /\ handler # Nil
    /\ calls[p] = Idle
    /\ LET ctx == [caller |-> p]
           sent == handleDistanceCalculationSend(handler, ctx, args)
       IN  IF sent.ret # Nil
           THEN /\ done' = Completed(p, ctx, args, sent.requests, Nil, Nil, sent.ret)
                /\ UNCHANGED calls
           ELSE /\ calls' = [q \in Procs |->
                                IF q = p
                                THEN [pc |-> "inDo", ctx |-> ctx, args |-> args,
                                      requests |-> sent.requests]
                                ELSE IF calls[q].pc = "inDo"
                                THEN [calls[q] EXCEPT !.requests = sent.requests]
                                ELSE calls[q]]
                /\ UNCHANGED done
    /\ UNCHANGED <<env, handler, server, ret>>

\* Goroutine p calls gh.handleDistanceCalculation(ctx, request) and runs it
\* until it returns or blocks in gh.client.Do(req).
Call(p, args) ==
    /\ handler # Nil
    /\ calls[p] = Idle
    /\ LET ctx == [caller |-> p]
           sent == handleDistanceCalculationSend(handler, ctx, args)
       IN  IF sent.ret # Nil
           THEN /\ done' = Completed(p, ctx, args, sent.requests, Nil, Nil, sent.ret)
                /\ UNCHANGED calls
           ELSE /\ calls' = [calls EXCEPT ![p] = [pc |-> "inDo", ctx |-> ctx, args |-> args,
                                                  requests |-> sent.requests]]
                /\ UNCHANGED done
    /\ UNCHANGED <<env, handler, server, ret>>

\* gh.client.Do(req) returns doRet to goroutine p, which runs the rest of
\* handleDistanceCalculation.
DoReturn(p, doRet) ==
    /\ calls[p].pc = "inDo"
    /\ LET out == Received[doRet]
       IN  done' = Completed(p, calls[p].ctx, calls[p].args, calls[p].requests, doRet,
                             out.client, out.ret)
    /\ calls' = [calls EXCEPT ![p] = Idle]
    /\ UNCHANGED <<env, handler, server, ret>>

Next ==
    \/ \E v \in EnvValues : Setenv(v)
    \/ Unsetenv
    \/ CallNewGeodistanceHandler
    \/ CallNewGeodistanceHandlerWithClient
    \/ CallGeodistanceServer
    \/ CallNewGeodistanceServer
    \/ \E p \in Procs, args \in ArgMaps : Call(p, args)
    \/ \E p \in Procs, doRet \in DoOutcomes : DoReturn(p, doRet)

Spec == Init /\ [][Next]_vars

----------------------------------------------------------------------------
(* Properties                                                              *)

\* The argument map holds a non-empty string under key.
AddressGiven(args, key) ==
    key \in DOMAIN args /\ args[key].t = "string" /\ args[key].s # ""

\* The argument map holds nothing under key, or the empty string.
AddressMissing(args, key) ==
    key \notin DOMAIN args \/ (args[key].t = "string" /\ args[key].s = "")

\* The invocation that returned last got a response from the provider.
Replied == done # Nil /\ done.doRet # Nil /\ done.doRet.err = Nil

\* The bodies of the provider's responses, and what each decodes to.
ReplyBodies == {d.resp.Body.data : d \in {x \in DoOutcomes : x.err = Nil}}

DecodedReply == [data \in ReplyBodies |-> Unmarshal(data)]

\* The response of the last invocation had status 200 and a body that was
\* read to its end.
RepliedOK ==
    /\ Replied
    /\ done.doRet.resp.StatusCode = 200
    /\ done.doRet.resp.Body.err = Nil

\* What that body decodes to.
ReplyDecoded == DecodedReply[done.doRet.resp.Body.data]

\* Exactly one of a returned value and a returned error is nil.
ExactlyOne(val, err) == (val = Nil) # (err = Nil)

\* C1: with both addresses non-empty and a status-200 reply whose body
\* decodes to one or more routes, handleDistanceCalculation returns a nil
\* error and a result of exactly one text block, whose text is
\* "Route distance: <d> meters, Duration: <dur>" with d and dur taken from
\* the first route; the routes after the first have no part in it (the
\* replies with one route and with a second route after it give the text of
\* the tests).
C1_FirstRouteFormatted ==
    (/\ RepliedOK
     /\ AddressGiven(done.args, "originAddress")
     /\ AddressGiven(done.args, "destinationAddress")
     /\ ReplyDecoded.err = Nil
     /\ Len(ReplyDecoded.val.Routes) >= 1)
    => /\ done.err = Nil
       /\ ~done.panic
       /\ done.result # Nil
       /\ done.result.Content =
              <<[Type |-> "text",
                 Text |-> "Route distance: "
                          \o FormatInt(ReplyDecoded.val.Routes[1].DistanceMeters)
                          \o " meters, Duration: " \o ReplyDecoded.val.Routes[1].Duration]>>
       /\ done.doRet.resp.Body.data \in {ValidAPIResponse, TwoRoutesResponse}
              => done.result.Content[1].Text = "Route distance: 1000 meters, Duration: 5m"
       /\ done.doRet.resp.Body.data = SampleResponse
              => done.result.Content[1].Text = "Route distance: 94475 meters, Duration: 3288s"

\* An invocation answered with two routes returned the text of the first.
C1_Witness ==
    /\ RepliedOK
    /\ done.doRet.resp.Body.data = TwoRoutesResponse
    /\ done.err = Nil
    /\ done.result # Nil
    /\ done.result.Content[1].Text = "Route distance: 1000 meters, Duration: 5m"

\* The errors of argument extraction and of validateAddresses.
IsArgumentError(err) ==
    /\ err # Nil
    /\ \/ HasPrefix(err.msg, "missing origin address: ")
       \/ HasPrefix(err.msg, "missing destination address: ")
       \/ err.msg = "origin address cannot be empty"
       \/ err.msg = "destination address cannot be empty"

\* C2: an invocation whose originAddress or destinationAddress is absent
\* from the argument map or is the empty string fails with an argument or
\* validation error, and hands no request to the client's Do: none while it
\* runs (no such invocation is ever in flight in Do) and none until it
\* returns.
C2_ValidationBeforeRequest ==
    /\ \A p \in Procs :
           calls[p].pc = "inDo"
           => /\ ~AddressMissing(calls[p].args, "originAddress")
              /\ ~AddressMissing(calls[p].args, "destinationAddress")
    /\ (/\ done # Nil
        /\ \/ AddressMissing(done.args, "originAddress")
           \/ AddressMissing(done.args, "destinationAddress"))
       => /\ done.result = Nil
          /\ IsArgumentError(done.err)
          /\ done.requests = <<>>
          /\ done.doRet = Nil

\* An invocation with an empty origin was rejected before any request.
C2_Witness ==
    /\ done # Nil
    /\ "originAddress" \in DOMAIN done.args
    /\ done.args["originAddress"] = StringArg("")
    /\ done.err # Nil
    /\ done.err.msg = "origin address cannot be empty"
    /\ done.requests = <<>>

\* C3: an invocation that passes argument extraction and validation hands
\* exactly one request to the client's Do, whatever Do returns; no
\* invocation hands it a second one, and an attempt that failed (Do's
\* error, or a status other than 200) is what the invocation returns as its
\* failure.
C3_ExactlyOneRequest ==
    /\ \A p \in Procs : calls[p].pc = "inDo" => Len(calls[p].requests) = 1
    /\ done # Nil
       => /\ Len(done.requests) <= 1
          /\ (AddressGiven(done.args, "originAddress")
              /\ AddressGiven(done.args, "destinationAddress"))
             => Len(done.requests) = 1 /\ done.doRet # Nil
          /\ done.doRet # Nil => Len(done.requests) = 1
          /\ (done.doRet # Nil /\ (done.doRet.err # Nil \/ done.doRet.resp.StatusCode # 200))
             => done.result = Nil /\ done.err # Nil /\ done.err = done.client.err

\* An invocation whose one request was answered with status 500 returned
\* that failure.
C3_Witness ==
    /\ Replied
    /\ done.doRet.resp.StatusCode = 500
    /\ Len(done.requests) = 1
    /\ done.result = Nil
    /\ done.err # Nil

\* C4: every invocation of handleDistanceCalculation returns either a
\* non-nil result (of exactly one text block) with a nil error, or a nil
\* result with a non-nil error, and does not panic; the same holds of what
\* callDistanceMatrix returned to it, which is what processResponse returned
\* whenever processResponse was called, and the return of formatResponse is
\* the return of the invocation whenever formatResponse was called.
C4_NoPartialSuccess ==
    done # Nil
    => /\ ~done.panic
       /\ ExactlyOne(done.result, done.err)
       /\ done.result # Nil
          => /\ Len(done.result.Content) = 1
             /\ done.result.Content[1].Type = "text"
             /\ done.formatted
       /\ done.client # Nil => ExactlyOne(done.client.val, done.client.err)

\* A reply that decodes in part (the first field of a route has the wrong
\* type) ended in a failure alone.
C4_Witness ==
    /\ RepliedOK
    /\ done.doRet.resp.Body.data = StringDistanceResponse
    /\ done.client.decoded
    /\ done.client.val = Nil
    /\ done.result = Nil
    /\ done.err # Nil

\* C5: a reply whose status is not 200 makes processResponse, and with it
\* the invocation, fail with a message that holds the status code in
\* decimal and the bytes of the response body as they were read; neither
\* returns any route of such a reply.
C5_StatusFailure ==
    (Replied /\ done.doRet.resp.StatusCode # 200)
    => /\ done.result = Nil
       /\ done.client.processed
       /\ done.client.val = Nil
       /\ done.err # Nil
       /\ done.err = done.client.err
       /\ Contains(done.err.msg, FormatInt(done.doRet.resp.StatusCode))
       /\ Contains(done.err.msg, done.doRet.resp.Body.data)
       /\ done.doRet.resp = Response(400, ErrorResponse, Nil)
          => done.err.msg
             = "API request failed with status 400: {\"error\": \"Invalid request\"}"
       /\ done.doRet.resp.StatusCode = 201 => Contains(done.err.msg, "201")

\* A reply of status 201 that carries a route was returned as a failure.
C5_Witness ==
    /\ Replied
    /\ done.doRet.resp = Response(201, ValidAPIResponse, Nil)
    /\ done.result = Nil
    /\ done.err # Nil
    /\ done.err.msg = "API request failed with status 201: " \o ValidAPIResponse

\* C6: a status-200 reply whose body decodes to no route makes the
\* invocation fail with the error "no routes found in response" and return
\* no result; whatever callDistanceMatrix returns with a nil error holds one
\* route or more; and no invocation of handleDistanceCalculation returns
\* the error of formatResponse, "no routes available".
C6_EmptyRoutesFail ==
    done # Nil
    => /\ (RepliedOK /\ ReplyDecoded.err = Nil /\ Len(ReplyDecoded.val.Routes) = 0)
          => /\ done.result = Nil
             /\ done.err # Nil
             /\ done.err.msg = "no routes found in response"
             /\ ~done.formatted
       /\ (done.client # Nil /\ done.client.err = Nil)
          => done.client.val # Nil /\ Len(done.client.val.Routes) >= 1
       /\ done.err # Nil => done.err.msg # "no routes available"

\* The reply {"routes": []} was returned as that failure.
C6_Witness ==
    /\ RepliedOK
    /\ done.doRet.resp.Body.data = NoRoutesResponse
    /\ done.result = Nil
    /\ done.err # Nil
    /\ done.err.msg = "no routes found in response"

\* C7: a status-200 reply whose body json.Unmarshal rejects (it is no JSON
\* text, or a value in it has a type the field of ResponseBody it is
\* decoded into cannot take) makes the invocation return a nil result and
\* the error "failed to unmarshal response: ..." that wraps the error of
\* json.Unmarshal; no invocation panics.
C7_DecodeFailure ==
    done # Nil
    => /\ ~done.panic
       /\ (RepliedOK /\ ReplyDecoded.err # Nil)
          => /\ done.result = Nil
             /\ done.err # Nil
             /\ HasPrefix(done.err.msg, "failed to unmarshal response: ")
             /\ done.err.wrapped = ReplyDecoded.err
             /\ done.client.val = Nil

\* The reply "invalid json" was returned as that failure.
C7_Witness ==
    /\ RepliedOK
    /\ done.doRet.resp.Body.data = InvalidJSON
    /\ done.result = Nil
    /\ done.err # Nil
    /\ HasPrefix(done.err.msg, "failed to unmarshal response: ")
    /\ ~done.panic

\* C8: when the client's Do returns an error, callDistanceMatrix returns a
\* nil ResponseBody and the error "failed to execute request: ..." that
\* wraps the error of Do, without calling processResponse; the invocation
\* returns that error without calling formatResponse.
C8_TransportFailure ==
    (done # Nil /\ done.doRet # Nil /\ done.doRet.err # Nil)
    => /\ done.client.val = Nil
       /\ done.client.err # Nil
       /\ done.client.err.wrapped = done.doRet.err
       /\ done.client.err.msg = "failed to execute request: " \o done.doRet.err.msg
       /\ ~done.client.processed
       /\ done.client.closes = 0
       /\ ~done.formatted
       /\ done.result = Nil
       /\ done.err = done.client.err

\* Do failed with "network error", and the invocation returned it wrapped.
C8_Witness ==
    /\ done # Nil
    /\ done.doRet # Nil
    /\ done.doRet.err = NetworkError
    /\ done.err # Nil
    /\ done.err.msg = "failed to execute request: network error"
    /\ done.err.wrapped = NetworkError

\* GOOGLE_API_KEY was unset or empty in the environment e.
KeyMissing(e) == ~e.set \/ e.value = ""

\* C9: with GOOGLE_API_KEY unset or empty, NewGeodistanceHandler,
\* NewGeodistanceHandlerWithClient and GeodistanceServer return nil and an
\* error whose message is "GOOGLE_API_KEY environment variable not set",
\* and the process has neither handler nor server; with a non-empty value
\* they return a nil error and a non-nil object (the handler, or the server
\* whose tool is bound to the handler), the handler's apiKey being that
\* value.
C9_Construction ==
    (ret # Nil /\ ret.fn \in {"NewGeodistanceHandler", "NewGeodistanceHandlerWithClient",
                              "GeodistanceServer"})
    => IF KeyMissing(ret.env)
       THEN /\ ret.val = Nil
            /\ ret.err # Nil
            /\ ret.err.msg = "GOOGLE_API_KEY environment variable not set"
            /\ handler = Nil
            /\ server = Nil
       ELSE /\ ret.val # Nil
            /\ ret.err = Nil
            /\ handler # Nil
            /\ handler.apiKey = ret.env.value
            /\ IF ret.fn = "GeodistanceServer"
               THEN /\ server = ret.val
                    /\ Len(server.tools) = 1
                    /\ server.tools[1].Handler.recv = handler
               ELSE ret.val = handler /\ server = Nil

\* GeodistanceServer was called with the variable set to "" and returned
\* the error.
C9_Witness ==
    /\ ret # Nil
    /\ ret.fn = "GeodistanceServer"
    /\ ret.env = SetTo("")
    /\ ret.val = Nil
    /\ ret.err # Nil
    /\ ret.err.msg = "GOOGLE_API_KEY environment variable not set"
    /\ server = Nil

\* C10: the handler keeps the value GOOGLE_API_KEY had when it was
\* constructed; every request handed to Do carries that value as
\* X-Goog-Api-Key, whatever the variable has been set to since; and no
\* invocation returns the error of the missing key.
C10_KeyReadAtConstruction ==
    handler # Nil
    => /\ ret # Nil /\ ret.err = Nil /\ ret.env.set
       /\ handler.apiKey = ret.env.value
       /\ \A p \in Procs :
              calls[p].pc = "inDo"
              => \A k \in 1..Len(calls[p].requests) :
                     calls[p].requests[k].Header.XGoogApiKey = ret.env.value
       /\ done # Nil
          => /\ \A k \in 1..Len(done.requests) :
                    done.requests[k].Header.XGoogApiKey = ret.env.value
             /\ done.err # Nil
                => done.err.msg # "GOOGLE_API_KEY environment variable not set"

\* The variable is unset by now, and the request of the last invocation
\* carried the key of the construction.
C10_Witness ==
    /\ handler # Nil
    /\ env = Unset
    /\ ret.env = SetTo("test-api-key")
    /\ done # Nil
    /\ Len(done.requests) = 1
    /\ done.requests[1].Header.XGoogApiKey = "test-api-key"
    /\ done.err = Nil

\* What an invocation with these arguments returns when it runs alone on the
\* handler gh and Do, if it is reached, returns doRet (Nil when Do is not
\* reached): the requests it hands to Do and what it returns.
Alone(gh, ctx, args, doRet) ==
    LET sent == handleDistanceCalculationSend(gh, ctx, args)
    IN  IF sent.ret # Nil
        THEN [requests |-> sent.requests, reachesDo |-> FALSE, ret |-> sent.ret]
        ELSE [requests |-> sent.requests, reachesDo |-> TRUE,
              ret |-> IF doRet = Nil THEN Nil ELSE Received[doRet].ret]

\* Every invocation in flight holds its own context and the request built
\* from its own arguments, and the invocation that has returned did so with
\* the requests and the outcome of a run alone on its arguments and reply.
Isolated ==
    /\ \A p \in Procs :
           calls[p].pc = "inDo"
           => /\ calls[p].ctx = [caller |-> p]
              /\ LET alone == Alone(handler, calls[p].ctx, calls[p].args, Nil)
                 IN  /\ alone.reachesDo
                     /\ calls[p].requests = alone.requests
    /\ done # Nil
       => /\ done.ctx = [caller |-> done.proc]
          /\ LET alone == Alone(handler, done.ctx, done.args, done.doRet)
             IN  /\ alone.reachesDo = (done.doRet # Nil)
                 /\ done.requests = alone.requests
                 /\ done.result = alone.ret.result
                 /\ done.err = alone.ret.err
                 /\ done.panic = alone.ret.panic

\* C11: whether invocations on the shared handler run one after the other
\* or interleaved, each returns what it would return alone with its own
\* arguments and its own reply of the provider, and the handler's apiKey and
\* client are never written once the handler is constructed.
C11_Isolation ==
    /\ []Isolated
    /\ [][handler # Nil => handler' = handler]_vars

\* An invocation has returned a successful result while another one, called
\* with other arguments, is still waiting in Do.
C11_Witness ==
    /\ done # Nil
    /\ done.doRet # Nil
    /\ done.err = Nil
    /\ done.result # Nil
    /\ \E p \in Procs :
           /\ p # done.proc
           /\ calls[p].pc = "inDo"
           /\ calls[p].args # done.args
           /\ calls[p].requests # done.requests

\* The argument map satisfies the schema the tool was registered with: every
\* required argument is there and holds a non-empty string.
SatisfiesSchema(tool, args) ==
    \A k \in 1..Len(tool.Required) : AddressGiven(args, tool.Required[k])

\* C12: the server registers the tool calculate_distance with exactly the
\* two required string arguments originAddress and destinationAddress, and
\* every call of the registered handler whose arguments satisfy the
\* registered schema with non-empty values passes the extraction and the
\* validation of the arguments and reaches the provider.
C12_SchemaMatchesHandler ==
    server # Nil
    => /\ Len(server.tools) = 1
       /\ server.tools[1].Name = "calculate_distance"
       /\ Len(server.tools[1].Required) = 2
       /\ {server.tools[1].Required[k] : k \in 1..2} = {"originAddress", "destinationAddress"}
       /\ server.tools[1].Handler = [recv |-> handler, method |-> "handleDistanceCalculation"]
       /\ (done # Nil /\ SatisfiesSchema(server.tools[1], done.args))
          => /\ Len(done.requests) = 1
             /\ done.doRet # Nil

\* The messages of the four failures of callDistanceMatrix begin with these.
ClientFailurePrefixes ==
    { "failed to execute request: ", "API request failed with status ",
      "failed to unmarshal response: ", "no routes found in response" }

\* C13: when callDistanceMatrix fails (transport, status, decoding, no
\* routes), handleDistanceCalculation returns the very error value
\* callDistanceMatrix returned, message and wrapped cause unchanged, and no
\* result.
C13_ClientErrorUnchanged ==
    (done # Nil /\ done.client # Nil /\ done.client.err # Nil)
    => /\ done.err = done.client.err
       /\ done.result = Nil
       /\ ~done.panic
       /\ ~done.formatted

\* The provider answered 500 and the invocation returned the error of
\* callDistanceMatrix, whose message is one of the four failures.
C13_Witness ==
    /\ done # Nil
    /\ done.doRet # Nil
    /\ done.doRet.err = Nil
    /\ done.doRet.resp.StatusCode = 500
    /\ done.client # Nil
    /\ done.client.err # Nil
    /\ \E pre \in ClientFailurePrefixes : HasPrefix(done.client.err.msg, pre)
    /\ done.err = done.client.err
    /\ done.result = Nil

\* The request is a POST to the route matrix endpoint with the three headers
\* of the handler holding key, made with the context ctx.
WellFormedRequest(req, key, ctx) ==
    /\ req.Method = "POST"
    /\ req.URL = "https://routes.googleapis.com/distanceMatrix/v2:computeRouteMatrix"
    /\ req.Header.ContentType = "application/json"
    /\ req.Header.XGoogApiKey = key
    /\ req.Header.XGoogFieldMask = "routes.duration,routes.routeLabels,routes.distanceMeters"
    /\ req.ctx = ctx

JSONString(s) == [t |-> "string", s |-> s]

JSONArray(elems) == [t |-> "array", elems |-> elems]

JSONObject(members) == [t |-> "object", members |-> members]

\* The JSON value of the payload for one origin and one destination.
ExpectedPayload(origin, destination) ==
    JSONObject(<<
        [key |-> "origins",
         value |-> JSONArray(<<JSONObject(<<[key |-> "address", value |-> JSONString(origin)]>>)>>)],
        [key |-> "destinations",
         value |-> JSONArray(<<JSONObject(<<[key |-> "address", value |-> JSONString(destination)]>>)>>)],
        [key |-> "travelMode", value |-> JSONString("DRIVE")],
        [key |-> "routingPreference", value |-> JSONString("TRAFFIC_AWARE")],
        [key |-> "requestedReferenceRoutes", value |-> JSONArray(<<JSONString("SHORTER_DISTANCE")>>)],
        [key |-> "languageCode", value |-> JSONString("en-US")] >>)

\* The request bodies the argument maps lead to, each parsed once.
ParsedBodies ==
    [b \in UNION { LET sent == handleDistanceCalculationSend(
                                    [apiKey |-> "test-api-key", client |-> DefaultClient],
                                    [caller |-> 1], args)
                   IN  {sent.requests[k].Body : k \in 1..Len(sent.requests)}
                   : args \in ArgMaps }
     |-> ParseJSON(b)]

\* The JSON value a request body holds.
ParseBody(b) == IF b \in DOMAIN ParsedBodies THEN ParsedBodies[b] ELSE ParseJSON(b)

\* The body of every request of an invocation with these arguments is the
\* JSON text of the payload of its two addresses.
PayloadOf(args, requests) ==
    \A k \in 1..Len(requests) :
        LET sent == ParseBody(requests[k].Body)
        IN  /\ sent.ok
            /\ sent.v = ExpectedPayload(args["originAddress"].s, args["destinationAddress"].s)

\* C15: the payload of an invocation holds exactly one origin and exactly
\* one destination, the caller's two address strings as they were given,
\* and travelMode DRIVE, routingPreference TRAFFIC_AWARE,
\* requestedReferenceRoutes [SHORTER_DISTANCE] and languageCode en-US,
\* whatever else the caller passed; invocations with the same two addresses
\* send equal payloads.
C15_Payload ==
    /\ \A p \in Procs :
           calls[p].pc = "inDo" => PayloadOf(calls[p].args, calls[p].requests)
    /\ done # Nil => PayloadOf(done.args, done.requests)
    /\ \A p, q \in Procs :
           (/\ calls[p].pc = "inDo"
            /\ calls[q].pc = "inDo"
            /\ calls[p].args["originAddress"] = calls[q].args["originAddress"]
            /\ calls[p].args["destinationAddress"] = calls[q].args["destinationAddress"])
           => \A k \in 1..Len(calls[p].requests), l \in 1..Len(calls[q].requests) :
                  calls[p].requests[k].Body = calls[q].requests[l].Body

\* Two invocations with the same addresses wait in Do with equal payloads,
\* and an invocation that also passed a travelMode has sent its request.
C15_Witness ==
    /\ \A p \in Procs :
           /\ calls[p].pc = "inDo"
           /\ calls[p].args = NewYorkLosAngeles
           /\ Len(calls[p].requests) = 1
    /\ done # Nil
    /\ "travelMode" \in DOMAIN done.args
    /\ Len(done.requests) = 1

\* The text is "<integer>s": one or more digits and then the letter s.
IsSeconds(s) ==
    /\ Len(s) >= 2
    /\ Char(s, Len(s)) = "s"
    /\ \A k \in 1..(Len(s) - 1) : IsDigit(Char(s, k))

\* The JSON text of each reply, parsed once.
ParsedReply == [data \in ReplyBodies |-> ParseJSON(data)]

\* The JSON object has a member of that name.
HasMember(obj, name) ==
    \E k \in 1..Len(obj.members) : FoldName(obj.members[k].key) = FoldName(name)

\* The first route of the reply, as the provider wrote it, gives a
\* distanceMeters.
FirstRouteGivesDistance(data) ==
    LET reply == ParsedReply[data].v
        routes == (CHOOSE k \in 1..Len(reply.members) :
                       FoldName(reply.members[k].key) = "routes")
    IN  HasMember(reply.members[routes].value.elems[1], "distanceMeters")

\* C16: the route of every successful result has a distanceMeters that is
\* an integer >= 0 and a duration of the form "<integer>s"; a reply whose
\* first route has a negative or no distanceMeters, or a duration of another
\* form, is never formatted into a successful result.
C16_RouteWellFormed ==
    (/\ RepliedOK
     /\ done.formatted
     /\ done.err = Nil
     /\ done.result # Nil)
    => /\ done.client.val.Routes[1].DistanceMeters >= 0
       /\ IsSeconds(done.client.val.Routes[1].Duration)
       /\ FirstRouteGivesDistance(done.doRet.resp.Body.data)

\* Both keys of the argument map hold strings: the extraction passes.
BothStrings(args) ==
    \A key \in {"originAddress", "destinationAddress"} :
        key \in DOMAIN args /\ args[key].t = "string"

ValidationMessages ==
    {"origin address cannot be empty", "destination address cannot be empty"}

\* C17: an invocation whose two arguments are strings fails the validation
\* if and only if the origin or the destination is the empty string, and
\* the error names the origin whenever the origin is empty; any other pair,
\* an address of white space included, goes to the provider as it was given;
\* and when both keys are missing the error is the one of the origin.
C17_Validation ==
    /\ \A p \in Procs :
           calls[p].pc = "inDo"
           => /\ BothStrings(calls[p].args)
              /\ calls[p].args["originAddress"].s # ""
              /\ calls[p].args["destinationAddress"].s # ""
    /\ (done # Nil /\ BothStrings(done.args))
       => LET origin == done.args["originAddress"].s
              destination == done.args["destinationAddress"].s
              rejected == done.err # Nil /\ done.err.msg \in ValidationMessages
          IN  /\ rejected <=> (origin = "" \/ destination = "")
              /\ origin = "" => done.err = NewError("origin address cannot be empty")
              /\ (origin # "" /\ destination = "")
                 => done.err = NewError("destination address cannot be empty")
              /\ rejected => (done.result = Nil /\ done.requests = <<>>)
              /\ ~rejected
                 => /\ Len(done.requests) = 1
                    /\ ParseBody(done.requests[1].Body).ok
                    /\ ParseBody(done.requests[1].Body).v = ExpectedPayload(origin, destination)
    /\ (/\ done # Nil
        /\ "originAddress" \notin DOMAIN done.args
        /\ "destinationAddress" \notin DOMAIN done.args)
       => /\ done.err # Nil
          /\ HasPrefix(done.err.msg, "missing origin address: ")
          /\ done.requests = <<>>

\* An invocation whose origin is a single space has been to the provider.
C17_Witness ==
    /\ done # Nil
    /\ BothStrings(done.args)
    /\ done.args["originAddress"].s = " "
    /\ Len(done.requests) = 1
    /\ done.doRet # Nil

\* The class of what callDistanceMatrix returned for a reply.
OutcomeClass(client) ==
    IF client.err = Nil THEN "Success"
    ELSE IF HasPrefix(client.err.msg, "API request failed with status ") THEN "ProviderError"
    ELSE IF HasPrefix(client.err.msg, "failed to unmarshal response: ") THEN "DecodeError"
    ELSE IF client.err.msg = "no routes found in response" THEN "EmptyResultError"
    ELSE IF HasPrefix(client.err.msg, "failed to read response body: ") THEN "ReadError"
    ELSE "Other"

\* The class of a reply by the precedence of four classes: the status, then
\* whether the bytes of the body decode, then the number of routes.
FourClasses(resp) ==
    IF resp.StatusCode # 200 THEN "ProviderError"
    ELSE IF DecodedReply[resp.Body.data].err # Nil THEN "DecodeError"
    ELSE IF Len(DecodedReply[resp.Body.data].val.Routes) = 0 THEN "EmptyResultError"
    ELSE "Success"

\* The same precedence with the failure to read the body of a status-200
\* reply placed before the decoding.
FiveClasses(resp) ==
    IF resp.StatusCode # 200 THEN "ProviderError"
    ELSE IF resp.Body.err # Nil THEN "ReadError"
    ELSE FourClasses(resp)

\* C18 as stated: every reply falls into exactly one of ProviderError (any
\* status but 200, whatever the body), DecodeError (a body that does not
\* decode), EmptyResultError (no routes) and success, in this precedence,
\* and the body of a reply with another status than 200 is never decoded.
C18_FourClasses ==
    Replied
    => /\ OutcomeClass(done.client) = FourClasses(done.doRet.resp)
       /\ done.doRet.resp.StatusCode # 200 => ~done.client.decoded

\* C18, amended: every reply falls into exactly one of five classes, in this
\* precedence: ProviderError for any status but 200, whatever the body;
\* a read error ("failed to read response body: ...") when the body of a
\* status-200 reply cannot be read to its end; DecodeError when the body does
\* not decode; EmptyResultError when it holds no route; success otherwise.
\* The body is decoded in the last three classes only.
C18_FiveClasses ==
    Replied
    => /\ OutcomeClass(done.client) = FiveClasses(done.doRet.resp)
       /\ done.client.decoded
          <=> (done.doRet.resp.StatusCode = 200 /\ done.doRet.resp.Body.err = Nil)
       /\ (done.client.val # Nil) <=> (OutcomeClass(done.client) = "Success")

\* A status-200 reply whose body broke off while it was read came back as
\* the read error, undecoded.
C18_Witness ==
    /\ Replied
    /\ done.doRet.resp.StatusCode = 200
    /\ done.doRet.resp.Body.err # Nil
    /\ OutcomeClass(done.client) = "ReadError"
    /\ ~done.client.decoded

\* C19: whenever Do returns a response and a nil error, the body of the
\* response is closed exactly once by the time callDistanceMatrix returns,
\* whatever processResponse returns (status failure, read failure, decode
\* failure, no routes, success); when Do returns an error, processResponse
\* is not called and the body is neither read nor closed.
C19_BodyClosedOnce ==
    (done # Nil /\ done.doRet # Nil)
    => IF done.doRet.err = Nil
       THEN /\ done.client.processed
            /\ done.client.closes = 1
       ELSE /\ ~done.client.processed
            /\ ~done.client.decoded
            /\ done.client.closes = 0

\* A reply with status 502 whose body broke off while it was read: the
\* invocation failed and the body was closed once.
C19_Witness ==
    /\ Replied
    /\ done.doRet.resp.StatusCode = 502
    /\ done.doRet.resp.Body.err # Nil
    /\ done.err # Nil
    /\ done.client.processed
    /\ done.client.closes = 1

====
